---------------------------- MODULE Spec2Model ----------------------------
(* DharmaDB persistence layer (src/persistence.rs): the orchestrator that   *)
(* ties the write-ahead log, the sparse index and the sorted table files.   *)
(*                                                                          *)
(* A table file is a sequence of records [key, value]; its path is its      *)
(* generation ordinal.  A record's offset is its position in the file (the  *)
(* reader reports a byte offset per record; positions stand for them).      *)
EXTENDS Integers, Sequences, FiniteSets, TLC

(* ------------------------------ bounds --------------------------------- *)
MaxKey == 3
MaxStored == 3
MaxRate == 2

Keys == 1..MaxKey
Values == {"a", "b"}
Records == [key : Keys, value : Values]

(* ----------------------------- state ----------------------------------- *)
VARIABLES
    disk,       \* table files on disk: generation ordinal -> sequence of records
    wal,        \* entries of the write-ahead log file
    rate,       \* options.sparse_index_sampling_rate
    live,       \* TRUE while a Persistence value exists (between create and drop)
    index,      \* Persistence.index: key -> TableAddress
    last        \* the last call: operation, returned Result, files it listed/opened

vars == <<disk, wal, rate, live, index, last>>

(* ------------------------- Result / Option ------------------------------ *)
None == <<>>
Some(v) == <<v>>
Ok(x) == [ok |-> TRUE, val |-> x, err |-> "-"]
Err(e) == [ok |-> FALSE, val |-> <<>>, err |-> e]
Unit == <<>>

(* ------------------------- collaborators -------------------------------- *)
\* SparseIndex::new
SparseIndexNew == [k \in {} |-> [path |-> 0, offset |-> 0]]

\* TableAddress::new(path, offset)
TableAddressNew(path, offset) == [path |-> path, offset |-> offset]

\* SparseIndex::update: the mapping of key is set, overwriting an earlier one
IndexUpdate(idx, key, address) ==
    [k \in (DOMAIN idx) \cup {key} |-> IF k = key THEN address ELSE idx[k]]

\* SparseIndex::get_nearest_address: the address of the greatest key <= key
get_nearest_address(idx, key) ==
    LET below == {k \in DOMAIN idx : k <= key}
    IN  IF below = {} THEN None
        ELSE Some(idx[CHOOSE k \in below : \A j \in below : j <= k])

\* SSTableReader::get_valid_table_paths: the table files, by generation
get_valid_table_paths(dsk) ==
    [i \in 1..Cardinality(DOMAIN dsk) |-> i - 1]

\* write_sstable(options, values, n): the batch becomes table file number n
write_sstable(dsk, values, n) ==
    [g \in (DOMAIN dsk) \cup {n} |-> IF g = n THEN values ELSE dsk[g]]

\* SSTableReader::has_next / read over a file, the cursor at record pos
has_next(table, pos) == pos < Len(table)
read(table, pos) == [data |-> table[pos + 1], offset |-> pos]

\* SSTableReader::seek_closest: fails on an offset that is no record's
seek_closest(table, offset) == offset < Len(table)

\* WriteAheadLog::append
LogAppend(log, key, value) == Append(log, [key |-> key, value |-> value])

(* -------------------- populate_index_from_path -------------------------- *)
RECURSIVE populate_loop_stops_early(_, _, _, _, _)
\* mutant: the loop ends one record early, the last record is never indexed
populate_loop_stops_early(r, path, table, counter, idx) ==
    IF ~has_next(table, counter + 1) THEN idx
    ELSE LET sstable_value == read(table, counter)
             idx2 == IF counter % r = 0
                     THEN IndexUpdate(idx, sstable_value.data.key,
                                      TableAddressNew(path, sstable_value.offset))
                     ELSE idx
         IN  populate_loop_stops_early(r, path, table, counter + 1, idx2)

RECURSIVE populate_loop_keeps_first(_, _, _, _, _)
\* mutant: a key that the index already maps keeps its earlier address
populate_loop_keeps_first(r, path, table, counter, idx) ==
    IF ~has_next(table, counter) THEN idx
    ELSE LET sstable_value == read(table, counter)
             idx2 == IF counter % r = 0 /\ sstable_value.data.key \notin DOMAIN idx
                     THEN IndexUpdate(idx, sstable_value.data.key,
                                      TableAddressNew(path, sstable_value.offset))
                     ELSE idx
         IN  populate_loop_keeps_first(r, path, table, counter + 1, idx2)

RECURSIVE populate_loop_samples_from_one(_, _, _, _, _)
\* mutant: the counter is advanced before it is tested, so the records
\* indexed are those at positions i with (i + 1) mod rate = 0
populate_loop_samples_from_one(r, path, table, counter, idx) ==
    IF ~has_next(table, counter) THEN idx
    ELSE LET sstable_value == read(table, counter)
             idx2 == IF (counter + 1) % r = 0
                     THEN IndexUpdate(idx, sstable_value.data.key,
                                      TableAddressNew(path, sstable_value.offset))
                     ELSE idx
         IN  populate_loop_samples_from_one(r, path, table, counter + 1, idx2)

RECURSIVE populate_loop(_, _, _, _, _)
\* the while loop: record counter is decoded and indexed when
\* counter % sampling_rate = 0; counter and reader advance together
populate_loop(r, path, table, counter, idx) ==
    IF ~has_next(table, counter) THEN idx
    ELSE LET sstable_value == read(table, counter)
             idx2 == IF counter % r = 0
                     THEN IndexUpdate(idx, sstable_value.data.key,
                                      TableAddressNew(path, sstable_value.offset))
                     ELSE idx
         IN  populate_loop(r, path, table, counter + 1, idx2)

\* populate_index_from_path: fails, index untouched, when the reader cannot open
populate_index_from_path(r, path, dsk, idx, openFails) ==
    IF openFails \/ path \notin DOMAIN dsk
    THEN [ret |-> Err("SSTABLE_READ_FAILED"), index |-> idx]
    ELSE [ret |-> Ok(Unit), index |-> populate_loop(r, path, dsk[path], 0, idx)]

(* ------------------------------ create --------------------------------- *)
RECURSIVE create_loop_skips_bad(_, _, _, _, _, _, _)
\* mutant: a table file that cannot be scanned is skipped
create_loop_skips_bad(r, dsk, paths, i, idx, bad, touched) ==
    IF i > Len(paths)
    THEN [ret |-> Ok(Unit), index |-> idx, touched |-> touched]
    ELSE LET path == paths[i]
             load_result == populate_index_from_path(r, path, dsk, idx, path \in bad)
         IN  create_loop_skips_bad(r, dsk, paths, i + 1, load_result.index, bad,
                                   touched \cup {path})

RECURSIVE create_loop_fresh_each(_, _, _, _, _, _, _)
\* mutant: every table file is loaded into an index of its own
create_loop_fresh_each(r, dsk, paths, i, idx, bad, touched) ==
    IF i > Len(paths)
    THEN [ret |-> Ok(Unit), index |-> idx, touched |-> touched]
    ELSE LET path == paths[i]
             load_result == populate_index_from_path(r, path, dsk, SparseIndexNew,
                                                     path \in bad)
         IN  IF ~load_result.ret.ok
             THEN [ret |-> Err("DB_INDEX_INITIALIZATION_FAILED"),
                   index |-> SparseIndexNew, touched |-> touched \cup {path}]
             ELSE create_loop_fresh_each(r, dsk, paths, i + 1, load_result.index,
                                         bad, touched \cup {path})

RECURSIVE create_loop(_, _, _, _, _, _, _)
\* the for loop over sstable_paths: the first failing load aborts
create_loop(r, dsk, paths, i, idx, bad, touched) ==
    IF i > Len(paths)
    THEN [ret |-> Ok(Unit), index |-> idx, touched |-> touched]
    ELSE LET path == paths[i]
             load_result == populate_index_from_path(r, path, dsk, idx, path \in bad)
         IN  IF ~load_result.ret.ok
             THEN [ret |-> Err("DB_INDEX_INITIALIZATION_FAILED"),
                   index |-> SparseIndexNew, touched |-> touched \cup {path}]
             ELSE create_loop(r, dsk, paths, i + 1, load_result.index, bad,
                              touched \cup {path})

\* what a call leaves behind: its Result, the index and log of the Persistence
\* value, the table files, and the files it listed and opened
Out(ret, idx, log, dsk, listed, touched, reads) ==
    [ret |-> ret, index |-> idx, log |-> log, disk |-> dsk,
     listed |-> listed, touched |-> touched, reads |-> reads]

\* mutant: the table files are listed and scanned before the log result is looked at
create_scans_first(r, log, dsk, logFails, listFails, bad) ==
    IF listFails
    THEN Out(Err("TABLE_PATHS_FAILED"), SparseIndexNew, log, dsk, TRUE, {}, 0)
    ELSE LET built == create_loop(r, dsk, get_valid_table_paths(dsk), 1,
                                  SparseIndexNew, bad, {})
         IN  IF logFails
             THEN Out(Err("WAL_INIT_FAILED"), SparseIndexNew, log, dsk, TRUE,
                      built.touched, 0)
             ELSE Out(built.ret, built.index, log, dsk, TRUE, built.touched, 0)

\* Persistence::create.  logFails: WriteAheadLog::new fails; listFails:
\* get_valid_table_paths fails; bad: the table files whose reader cannot open.
\* The block of the successful branch ends in Ok(Persistence {..}), which is
\* what the call yields there.
create(r, log, dsk, logFails, listFails, bad) ==
    IF logFails
    THEN Out(Err("WAL_INIT_FAILED"), SparseIndexNew, log, dsk, FALSE, {}, 0)
    ELSE IF listFails
    THEN Out(Err("TABLE_PATHS_FAILED"), SparseIndexNew, log, dsk, TRUE, {}, 0)
    ELSE LET built == create_loop(r, dsk, get_valid_table_paths(dsk), 1,
                                  SparseIndexNew, bad, {})
         IN  Out(built.ret, built.index, log, dsk, TRUE, built.touched, 0)

(* -------------------------------- get ----------------------------------- *)
\* mutant: a smaller key ends the scan instead of advancing the reader
get_scan_no_advance(table, pos, key, reads) ==
    IF ~has_next(table, pos) THEN [ret |-> Ok(None), reads |-> reads]
    ELSE LET record == read(table, pos).data
         IN  IF record.key = key
             THEN [ret |-> Ok(Some(record.value)), reads |-> reads + 1]
             ELSE [ret |-> Ok(None), reads |-> reads + 1]

RECURSIVE get_scan_one_past(_, _, _, _)
\* mutant: the reader advances before the first read, skipping the indexed record
get_scan_one_past(table, pos, key, reads) ==
    IF ~has_next(table, pos + 1) THEN [ret |-> Ok(None), reads |-> reads]
    ELSE LET record == read(table, pos + 1).data
         IN  IF record.key < key THEN get_scan_one_past(table, pos + 1, key, reads + 1)
             ELSE IF record.key = key
             THEN [ret |-> Ok(Some(record.value)), reads |-> reads + 1]
             ELSE [ret |-> Ok(None), reads |-> reads + 1]

RECURSIVE get_scan_greater_matches(_, _, _, _)
\* mutant: the Greater arm returns the record's value instead of absence
get_scan_greater_matches(table, pos, key, reads) ==
    IF ~has_next(table, pos) THEN [ret |-> Ok(None), reads |-> reads]
    ELSE LET record == read(table, pos).data
         IN  IF record.key < key
             THEN get_scan_greater_matches(table, pos + 1, key, reads + 1)
             ELSE [ret |-> Ok(Some(record.value)), reads |-> reads + 1]

RECURSIVE get_scan(_, _, _, _)
\* the while loop of get: skip smaller keys, stop at the first key >= key
get_scan(table, pos, key, reads) ==
    IF ~has_next(table, pos) THEN [ret |-> Ok(None), reads |-> reads]
    ELSE LET record == read(table, pos).data
         IN  IF record.key < key THEN get_scan(table, pos + 1, key, reads + 1)
             ELSE IF record.key = key
             THEN [ret |-> Ok(Some(record.value)), reads |-> reads + 1]
             ELSE [ret |-> Ok(None), reads |-> reads + 1]

\* mutant: a key with a pending write in the log is answered from the log
get_consults_log(idx, log, dsk, key, openFails, seekFails) ==
    LET hits == {i \in DOMAIN log : log[i].key = key}
    IN  IF hits # {}
        THEN Out(Ok(Some(log[CHOOSE i \in hits : \A j \in hits : j <= i].value)),
                 idx, log, dsk, FALSE, {}, 0)
        ELSE LET maybe_address == get_nearest_address(idx, key)
             IN  IF maybe_address = None \/ openFails \/ seekFails
                 THEN Out(Ok(None), idx, log, dsk, FALSE, {}, 0)
                 ELSE LET address == maybe_address[1]
                          found == get_scan(dsk[address.path], address.offset, key, 0)
                      IN  Out(found.ret, idx, log, dsk, FALSE, {address.path},
                              found.reads)

\* mutant: a table file that cannot be opened is answered as absence
get_swallows_open_failure(idx, log, dsk, key, openFails, seekFails) ==
    LET maybe_address == get_nearest_address(idx, key)
    IN  IF maybe_address = None
        THEN Out(Ok(None), idx, log, dsk, FALSE, {}, 0)
        ELSE LET address == maybe_address[1]
             IN  IF openFails \/ address.path \notin DOMAIN dsk
                      \/ seekFails \/ ~seek_closest(dsk[address.path], address.offset)
                 THEN Out(Ok(None), idx, log, dsk, FALSE, {address.path}, 0)
                 ELSE LET found == get_scan(dsk[address.path], address.offset, key, 0)
                      IN  Out(found.ret, idx, log, dsk, FALSE, {address.path},
                              found.reads)

\* mutant: a failed seek is returned to the caller as an error
get_propagates_seek_failure(idx, log, dsk, key, openFails, seekFails) ==
    LET maybe_address == get_nearest_address(idx, key)
    IN  IF maybe_address = None
        THEN Out(Ok(None), idx, log, dsk, FALSE, {}, 0)
        ELSE LET address == maybe_address[1]
             IN  IF openFails \/ address.path \notin DOMAIN dsk
                 THEN Out(Err("TABLE_OPEN_FAILED"), idx, log, dsk, FALSE,
                          {address.path}, 0)
                 ELSE IF seekFails \/ ~seek_closest(dsk[address.path], address.offset)
                 THEN Out(Err("SEEK_FAILED"), idx, log, dsk, FALSE, {address.path}, 0)
                 ELSE LET found == get_scan(dsk[address.path], address.offset, key, 0)
                      IN  Out(found.ret, idx, log, dsk, FALSE, {address.path},
                              found.reads)

\* Persistence::get.  openFails: SSTableReader::from fails (propagated by ?);
\* seekFails: seek_closest fails.
get(idx, log, dsk, key, openFails, seekFails) ==
    LET maybe_address == get_nearest_address(idx, key)
    IN  IF maybe_address = None
        THEN Out(Ok(None), idx, log, dsk, FALSE, {}, 0)
        ELSE LET address == maybe_address[1]
             IN  IF openFails \/ address.path \notin DOMAIN dsk
                 THEN Out(Err("TABLE_OPEN_FAILED"), idx, log, dsk, FALSE,
                          {address.path}, 0)
                 ELSE IF seekFails \/ ~seek_closest(dsk[address.path], address.offset)
                 THEN Out(Ok(None), idx, log, dsk, FALSE, {address.path}, 0)
                 ELSE LET found == get_scan(dsk[address.path], address.offset, key, 0)
                      IN  Out(found.ret, idx, log, dsk, FALSE, {address.path},
                              found.reads)

(* ------------------------------- insert --------------------------------- *)
\* mutant: insert also registers the key in the index, as if it were in table 0
insert_touches_index(idx, log, dsk, key, value, appendFails) ==
    IF appendFails
    THEN Out(Err("DB_WRITE_FAILED"), idx, log, dsk, FALSE, {}, 0)
    ELSE Out(Ok(Unit), IndexUpdate(idx, key, TableAddressNew(0, 0)),
             LogAppend(log, key, value), dsk, FALSE, {}, 0)

\* Persistence::insert.  appendFails: WriteAheadLog::append fails.
insert(idx, log, dsk, key, value, appendFails) ==
    IF appendFails
    THEN Out(Err("DB_WRITE_FAILED"), idx, log, dsk, FALSE, {}, 0)
    ELSE Out(Ok(Unit), idx, LogAppend(log, key, value), dsk, FALSE, {}, 0)

(* ------------------------------- flush ---------------------------------- *)
\* mutant: the new table file is written but the live index is not updated
flush_no_index_update(r, idx, log, dsk, values, listFails, writeFails, openFails) ==
    IF listFails
    THEN Out(Err("TABLE_PATHS_FAILED"), idx, log, dsk, TRUE, {}, 0)
    ELSE IF writeFails
    THEN Out(Err("SSTABLE_CREATION_FAILED"), idx, log, dsk, TRUE, {}, 0)
    ELSE LET n == Len(get_valid_table_paths(dsk))
         IN  IF openFails
             THEN Out(Err("DB_INDEX_UPDATE_FAILED"), idx, log,
                      write_sstable(dsk, values, n), TRUE, {n}, 0)
             ELSE Out(Ok(Unit), idx, log, write_sstable(dsk, values, n), TRUE, {n}, 0)

\* mutant: the index is rebuilt from the new table file alone
flush_fresh_index(r, idx, log, dsk, values, listFails, writeFails, openFails) ==
    IF listFails
    THEN Out(Err("TABLE_PATHS_FAILED"), idx, log, dsk, TRUE, {}, 0)
    ELSE IF writeFails
    THEN Out(Err("SSTABLE_CREATION_FAILED"), idx, log, dsk, TRUE, {}, 0)
    ELSE LET n == Len(get_valid_table_paths(dsk))
             written == write_sstable(dsk, values, n)
             upd == populate_index_from_path(r, n, written, SparseIndexNew, openFails)
         IN  IF ~upd.ret.ok
             THEN Out(Err("DB_INDEX_UPDATE_FAILED"), idx, log, written, TRUE, {n}, 0)
             ELSE Out(Ok(Unit), upd.index, log, written, TRUE, {n}, 0)

\* mutant: the index is updated from the batch before the writer's result is
\* looked at, so a failed write leaves entries for a file that does not exist
flush_indexes_before_write(r, idx, log, dsk, values, listFails, writeFails, openFails) ==
    IF listFails
    THEN Out(Err("TABLE_PATHS_FAILED"), idx, log, dsk, TRUE, {}, 0)
    ELSE LET n == Len(get_valid_table_paths(dsk))
             written == write_sstable(dsk, values, n)
             upd == populate_index_from_path(r, n, written, idx, openFails)
         IN  IF writeFails
             THEN Out(Err("SSTABLE_CREATION_FAILED"), upd.index, log, dsk, TRUE, {}, 0)
             ELSE IF ~upd.ret.ok
             THEN Out(Err("DB_INDEX_UPDATE_FAILED"), idx, log, written, TRUE, {n}, 0)
             ELSE Out(Ok(Unit), upd.index, log, written, TRUE, {n}, 0)

\* mutant: a new table file whose entries cannot be registered is removed again
flush_removes_unindexed_file(r, idx, log, dsk, values, listFails, writeFails, openFails) ==
    IF listFails
    THEN Out(Err("TABLE_PATHS_FAILED"), idx, log, dsk, TRUE, {}, 0)
    ELSE IF writeFails
    THEN Out(Err("SSTABLE_CREATION_FAILED"), idx, log, dsk, TRUE, {}, 0)
    ELSE LET n == Len(get_valid_table_paths(dsk))
             written == write_sstable(dsk, values, n)
             upd == populate_index_from_path(r, n, written, idx, openFails)
         IN  IF ~upd.ret.ok
             THEN Out(Err("DB_INDEX_UPDATE_FAILED"), idx, log, dsk, TRUE, {n}, 0)
             ELSE Out(Ok(Unit), upd.index, log, written, TRUE, {n}, 0)

RECURSIVE InsertByKey(_, _)
\* rec placed before the first record of a greater key
InsertByKey(sorted, rec) ==
    IF sorted = <<>> THEN <<rec>>
    ELSE IF rec.key < Head(sorted).key THEN <<rec>> \o sorted
    ELSE <<Head(sorted)>> \o InsertByKey(Tail(sorted), rec)

RECURSIVE SortByKey(_)
SortByKey(values) ==
    IF values = <<>> THEN <<>>
    ELSE InsertByKey(SortByKey(Tail(values)), Head(values))

\* mutant: flush sorts the batch by key before handing it to the writer
flush_sorts_first(r, idx, log, dsk, values, listFails, writeFails, openFails) ==
    IF listFails
    THEN Out(Err("TABLE_PATHS_FAILED"), idx, log, dsk, TRUE, {}, 0)
    ELSE IF writeFails
    THEN Out(Err("SSTABLE_CREATION_FAILED"), idx, log, dsk, TRUE, {}, 0)
    ELSE LET n == Len(get_valid_table_paths(dsk))
             written == write_sstable(dsk, SortByKey(values), n)
             upd == populate_index_from_path(r, n, written, idx, openFails)
         IN  IF ~upd.ret.ok
             THEN Out(Err("DB_INDEX_UPDATE_FAILED"), idx, log, written, TRUE, {n}, 0)
             ELSE Out(Ok(Unit), upd.index, log, written, TRUE, {n}, 0)

\* mutant: the generation ordinal passed to the writer is that of the last
\* existing table file, which the new file then replaces
flush_reuses_last_ordinal(r, idx, log, dsk, values, listFails, writeFails, openFails) ==
    IF listFails
    THEN Out(Err("TABLE_PATHS_FAILED"), idx, log, dsk, TRUE, {}, 0)
    ELSE IF writeFails
    THEN Out(Err("SSTABLE_CREATION_FAILED"), idx, log, dsk, TRUE, {}, 0)
    ELSE LET paths == get_valid_table_paths(dsk)
             n == IF Len(paths) = 0 THEN 0 ELSE Len(paths) - 1
             written == write_sstable(dsk, values, n)
             upd == populate_index_from_path(r, n, written, idx, openFails)
         IN  IF ~upd.ret.ok
             THEN Out(Err("DB_INDEX_UPDATE_FAILED"), idx, log, written, TRUE, {n}, 0)
             ELSE Out(Ok(Unit), upd.index, log, written, TRUE, {n}, 0)

\* mutant: a successful flush clears the log
flush_clears_log(r, idx, log, dsk, values, listFails, writeFails, openFails) ==
    IF listFails
    THEN Out(Err("TABLE_PATHS_FAILED"), idx, log, dsk, TRUE, {}, 0)
    ELSE IF writeFails
    THEN Out(Err("SSTABLE_CREATION_FAILED"), idx, log, dsk, TRUE, {}, 0)
    ELSE LET n == Len(get_valid_table_paths(dsk))
             written == write_sstable(dsk, values, n)
             upd == populate_index_from_path(r, n, written, idx, openFails)
         IN  IF ~upd.ret.ok
             THEN Out(Err("DB_INDEX_UPDATE_FAILED"), idx, <<>>, written, TRUE, {n}, 0)
             ELSE Out(Ok(Unit), upd.index, <<>>, written, TRUE, {n}, 0)

\* Persistence::flush.  listFails: get_valid_table_paths fails (propagated by
\* ?); writeFails: write_sstable fails; openFails: the reader of the new file
\* cannot open.
flush(r, idx, log, dsk, values, listFails, writeFails, openFails) ==
    IF listFails
    THEN Out(Err("TABLE_PATHS_FAILED"), idx, log, dsk, TRUE, {}, 0)
    ELSE LET paths == get_valid_table_paths(dsk)
         IN  IF writeFails
             THEN Out(Err("SSTABLE_CREATION_FAILED"), idx, log, dsk, TRUE, {}, 0)
             ELSE LET new_sstable_path == Len(paths)
                      written == write_sstable(dsk, values, Len(paths))
                      index_update_result ==
                          populate_index_from_path(r, new_sstable_path, written,
                                                   idx, openFails)
                  IN  IF ~index_update_result.ret.ok
                      THEN Out(Err("DB_INDEX_UPDATE_FAILED"), idx, log, written,
                               TRUE, {new_sstable_path}, 0)
                      ELSE Out(Ok(Unit), index_update_result.index, log, written,
                               TRUE, {new_sstable_path}, 0)

(* ------------------------------ actions --------------------------------- *)
\* what a batch adds to the store: its records, an empty table file counting 1
Cost(values) == IF Len(values) = 0 THEN 1 ELSE Len(values)

RECURSIVE SumCost(_, _)
SumCost(dsk, S) ==
    IF S = {} THEN 0
    ELSE LET g == CHOOSE x \in S : TRUE IN Cost(dsk[g]) + SumCost(dsk, S \ {g})

\* size of the store: the table files and the log together, a log entry
\* counting 2
Stored == SumCost(disk, DOMAIN disk) + 2 * Len(wal)

\* the batches (sorted or not, keys repeated or not) that fit in n
Batches(n) == UNION {[1..m -> Records] : m \in 0..n}

Call(op, out) ==
    [op |-> op, ret |-> out.ret, listed |-> out.listed, touched |-> out.touched,
     reads |-> out.reads]

Init ==
    /\ disk = [g \in {} |-> <<>>]
    /\ wal = <<>>
    /\ rate \in {1, MaxRate}      \* a dense index, or a sparse one
    /\ live = FALSE
    /\ index = SparseIndexNew
    /\ last = [op |-> "none", ret |-> Ok(Unit), listed |-> FALSE, touched |-> {},
               reads |-> 0]

\* a session starts: Persistence::create(options)
CreateCall(logFails, listFails, bad) ==
    /\ ~live
    /\ LET c == create(rate, wal, disk, logFails, listFails, bad)
       IN  /\ live' = c.ret.ok
           /\ index' = c.index
           /\ wal' = c.log
           /\ disk' = c.disk
           /\ last' = Call("create", c)
    /\ UNCHANGED rate

\* the session ends: the Persistence value, and with it the index, is dropped
Drop ==
    /\ live
    /\ live' = FALSE
    /\ index' = SparseIndexNew
    /\ last' = [op |-> "drop", ret |-> Ok(Unit), listed |-> FALSE, touched |-> {},
                reads |-> 0]
    /\ UNCHANGED <<disk, wal, rate>>

GetCall(openFails, seekFails) ==
    /\ live
    /\ \E key \in Keys :
         LET g == get(index, wal, disk, key, openFails, seekFails)
         IN  /\ index' = g.index
             /\ wal' = g.log
             /\ disk' = g.disk
             /\ last' = Call("get", g)
    /\ UNCHANGED <<rate, live>>

InsertCall(appendFails) ==
    /\ live
    /\ Stored + 2 <= MaxStored
    /\ \E key \in Keys, value \in Values :
         LET i == insert(index, wal, disk, key, value, appendFails)
         IN  /\ index' = i.index
             /\ wal' = i.log
             /\ disk' = i.disk
             /\ last' = Call("insert", i)
    /\ UNCHANGED <<rate, live>>

FlushCall(listFails, writeFails, openFails) ==
    /\ live
    /\ Stored < MaxStored
    /\ \E values \in Batches(MaxStored - Stored) :
         LET f == flush(rate, index, wal, disk, values, listFails, writeFails, openFails)
         IN  /\ index' = f.index
             /\ wal' = f.log
             /\ disk' = f.disk
             /\ last' = Call("flush", f)
    /\ UNCHANGED <<rate, live>>

\* the calls in which no collaborator fails
CreateNoFault == CreateCall(FALSE, FALSE, {})
GetNoFault == GetCall(FALSE, FALSE)
InsertNoFault == InsertCall(FALSE)
FlushNoFault == FlushCall(FALSE, FALSE, FALSE)

\* every call, with each fault of its collaborators: the log cannot be opened,
\* the table files cannot be listed, some table files cannot be opened
Create ==
    \/ CreateNoFault
    \/ CreateCall(TRUE, FALSE, {})
    \/ CreateCall(FALSE, TRUE, {})
    \/ \E bad \in (SUBSET (DOMAIN disk)) \ {{}} : CreateCall(FALSE, FALSE, bad)

Get ==
    \/ GetNoFault
    \/ GetCall(TRUE, FALSE)
    \/ GetCall(FALSE, TRUE)

Insert ==
    \/ InsertNoFault
    \/ InsertCall(TRUE)

Flush ==
    \/ FlushNoFault
    \/ FlushCall(TRUE, FALSE, FALSE)
    \/ FlushCall(FALSE, TRUE, FALSE)
    \/ FlushCall(FALSE, FALSE, TRUE)

Next == Create \/ Drop \/ Get \/ Insert \/ Flush

Spec == Init /\ [][Next]_vars

\* the runs in which no collaborator fails
NextNoFault == CreateNoFault \/ Drop \/ GetNoFault \/ InsertNoFault \/ FlushNoFault
SpecNoFault == Init /\ [][NextNoFault]_vars

\* the runs of sessions that only flush: the states reachable by create and
\* flushes, no collaborator failing
NextTables == CreateNoFault \/ Drop \/ FlushNoFault
SpecTables == Init /\ [][NextTables]_vars

\* the runs in which only the collaborators of create may fail
NextCreateFaults == Create \/ Drop \/ GetNoFault \/ InsertNoFault \/ FlushNoFault
SpecCreateFaults == Init /\ [][NextCreateFaults]_vars

\* the runs in which only the log append of insert may fail
NextInsertFaults == CreateNoFault \/ Drop \/ GetNoFault \/ Insert \/ FlushNoFault
SpecInsertFaults == Init /\ [][NextInsertFaults]_vars

\* the runs in which only the table reader of get may fail
NextGetFaults == CreateNoFault \/ Drop \/ Get \/ InsertNoFault \/ FlushNoFault
SpecGetFaults == Init /\ [][NextGetFaults]_vars

\* the runs of the write path (no get) in which only the collaborators of
\* flush may fail
NextFlushFaults == CreateNoFault \/ Drop \/ InsertNoFault \/ Flush
SpecFlushFaults == Init /\ [][NextFlushFaults]_vars

\* the runs of the write path (no get) in which the log append of insert and
\* the collaborators of flush may fail
NextWriteFaults == CreateNoFault \/ Drop \/ Insert \/ Flush
SpecWriteFaults == Init /\ [][NextWriteFaults]_vars

(* ------------------------- vocabulary of the claims --------------------- *)
TableKeys(table) == {table[i].key : i \in DOMAIN table}
DiskKeys == UNION {TableKeys(disk[g]) : g \in DOMAIN disk}
StrictlyAscending(table) ==
    \A i \in DOMAIN table : \A j \in DOMAIN table : i < j => table[i].key < table[j].key
AllSorted == \A g \in DOMAIN disk : StrictlyAscending(disk[g])

\* the Result of get(key) in the current state when no collaborator fails
Lookup(key) == get(index, wal, disk, key, FALSE, FALSE).ret
Found(key) == Lookup(key).ok /\ Lookup(key).val # None
Absent(key) == Lookup(key) = Ok(None)

\* the table file the index's floor entry for key addresses, if any
FloorHas(key) == get_nearest_address(index, key) # None
FloorPath(key) == get_nearest_address(index, key)[1].path
InFloorFile(key) == FloorHas(key) /\ key \in TableKeys(disk[FloorPath(key)])

\* the table file the last flush wrote
Newest == Cardinality(DOMAIN disk) - 1
FlushedOk == last.op = "flush" /\ last.ret.ok

(* ------------------------------- C1 ------------------------------------- *)
\* C1 (as stated): after successful flushes of sorted batches, get(k) returns
\* a value whenever k is a key of some table file, and absence only when k is
\* in no table file.
C1_Original ==
    (live /\ AllSorted) =>
        \A k \in Keys : (k \in DiskKeys => Found(k)) /\ (k \notin DiskKeys => Absent(k))

\* C1 (amended): after successful flushes of sorted batches, get(k) returns a
\* value exactly when k is a key of the one table file that the index's floor
\* entry for k addresses; it returns absence for a key of no table file, and
\* also for a key found only in other table files.
C1_FloorFileOnly ==
    (live /\ AllSorted) =>
        \A k \in Keys : /\ Found(k) <=> InFloorFile(k)
                        /\ ~Found(k) => Absent(k)
                        /\ k \notin DiskKeys => Absent(k)

\* a get has missed a key that an older table file holds, with sorted files
C1_Witness ==
    /\ live /\ AllSorted /\ Cardinality(DOMAIN disk) >= 2
    /\ last.op = "get" /\ last.ret = Ok(None) /\ last.reads > 0
    /\ \E k \in DiskKeys : Absent(k)
    /\ \E k \in DiskKeys : Found(k)

(* ------------------------------- C2 ------------------------------------- *)
\* the pairs of the batch the last flush wrote, by position
Batch == disk[Newest]
Returned(i) == Lookup(Batch[i].key) = Ok(Some(Batch[i].value))

\* C2 (as stated, the batch sorted as the table writer expects): after a
\* successful flush, get(k) returns v for every pair (k, v) of the batch.
C2_Original ==
    (live /\ FlushedOk /\ AllSorted) => \A i \in DOMAIN Batch : Returned(i)

\* C2 (amended): after a successful flush of a batch with strictly ascending
\* keys, get(k) returns v for every pair (k, v) of the batch that sits at a
\* sampled position (i mod rate = 0) or whose floor entry in the index
\* addresses the new table file; with rate 1 that is every pair.
C2_SampledOrFloorInNewFile ==
    (live /\ FlushedOk /\ StrictlyAscending(Batch)) =>
        /\ \A i \in DOMAIN Batch :
              ((i - 1) % rate = 0 \/ FloorPath(Batch[i].key) = Newest) => Returned(i)
        /\ rate = 1 => \A i \in DOMAIN Batch : Returned(i)

\* a flush over an older table file: one pair of the batch is returned, and
\* another is answered from the older file
C2_Witness ==
    /\ live /\ FlushedOk /\ AllSorted /\ Newest >= 1 /\ Len(Batch) >= 2
    /\ \E i \in DOMAIN Batch : Returned(i)
    /\ \E i \in DOMAIN Batch : ~Returned(i)

(* ------------------------------- C3 ------------------------------------- *)
\* the index a fresh create builds over the table files as they are
BootIndex == create(rate, wal, disk, FALSE, FALSE, {}).index

C4_DenseIndexFindsAll ==
    (live /\ rate = 1) =>
        /\ \A g \in DOMAIN disk : \A i \in DOMAIN disk[g] :
              /\ disk[g][i].key \in DOMAIN index
              /\ LET a == index[disk[g][i].key]
                 IN  /\ a.path \in DOMAIN disk
                     /\ a.offset < Len(disk[a.path])
                     /\ disk[a.path][a.offset + 1].key = disk[g][i].key
        /\ \A k \in DiskKeys : Found(k)

\* rate 1, two table files, a get that found a key stored past the first record
C4_Witness ==
    /\ live /\ rate = 1 /\ Newest >= 1
    /\ last.op = "get" /\ last.ret.ok /\ last.ret.val # None
    /\ \E g \in DOMAIN disk : Len(disk[g]) >= 2
    /\ \E k \in DiskKeys : index[k].offset >= 1

(* ------------------------------- C5 ------------------------------------- *)
ValueIn(table, key) == table[CHOOSE i \in DOMAIN table : table[i].key = key].value

\* C5: with sampling rate N > 1, get(k) returns the stored value whenever the
\* index's floor entry for k addresses a sorted table file that holds k; in a
\* store of a single sorted table file every key of the file is retrievable.
C5_FloorThenScan ==
    (live /\ rate > 1) =>
        /\ \A k \in Keys :
              (InFloorFile(k) /\ StrictlyAscending(disk[FloorPath(k)])) =>
                  Lookup(k) = Ok(Some(ValueIn(disk[FloorPath(k)], k)))
        /\ (DOMAIN disk = {0} /\ StrictlyAscending(disk[0])) =>
              \A i \in DOMAIN disk[0] :
                  Lookup(disk[0][i].key) = Ok(Some(disk[0][i].value))

\* rate N > 1, one sorted table of more than N records: a get has scanned
\* forward from a sampled record to the key it returned
C5_Witness ==
    /\ live /\ rate > 1 /\ DOMAIN disk = {0} /\ StrictlyAscending(disk[0])
    /\ Len(disk[0]) > rate /\ Cardinality(DOMAIN index) >= 2
    /\ last.op = "get" /\ last.ret.ok /\ last.ret.val # None /\ last.reads >= 2

(* ------------------------------- C6 ------------------------------------- *)
LogKeys == {wal[i].key : i \in DOMAIN wal}

\* C6: get never consults the log: a key that insert has logged and no table
\* file holds is absent, and the result of every get is the same before and
\* after an insert.
C6_GetIgnoresLog ==
    /\ [](live => \A k \in Keys :
                 /\ k \notin DiskKeys => Absent(k)
                 /\ get(index, <<>>, disk, k, FALSE, FALSE).ret = Lookup(k))
    /\ [][last'.op = "insert" =>
             \A q \in Keys :
                 get(index', wal', disk', q, FALSE, FALSE).ret = Lookup(q)]_vars

\* a get has returned absence while the log holds a key that no table file holds
C6_Witness ==
    /\ live /\ last.op = "get" /\ last.ret = Ok(None) /\ last.reads > 0
    /\ LogKeys # {} /\ DiskKeys # {} /\ LogKeys \cap DiskKeys = {}

(* ------------------------------- C7 ------------------------------------- *)
\* C7: insert(k, v) leaves the index and every table file as they were,
\* whether the log append succeeds or fails; on success the log is the old
\* log with the one entry (k, v) appended; on failure the caller gets the
\* write-failure error.
C7_InsertFrame ==
    live =>
        \A k \in Keys : \A v \in Values :
            LET done == insert(index, wal, disk, k, v, FALSE)
                failed == insert(index, wal, disk, k, v, TRUE)
            IN  /\ done.index = index /\ done.disk = disk
                /\ done.ret = Ok(Unit)
                /\ done.log = wal \o <<[key |-> k, value |-> v]>>
                /\ failed.index = index /\ failed.disk = disk
                /\ failed.ret = Err("DB_WRITE_FAILED")

\* an insert has succeeded in a session that has table files and an index
C7_Witness ==
    /\ live /\ last.op = "insert" /\ last.ret.ok
    /\ Len(wal) >= 1 /\ DOMAIN disk # {} /\ DOMAIN index # {}

(* ------------------------------- C8 ------------------------------------- *)
\* positions of table file g that the sampling procedure indexes for key k
SampledAt(g, k) == {i \in 0..(Len(disk[g]) - 1) : i % rate = 0 /\ disk[g][i + 1].key = k}
SampledIn(k) == {g \in DOMAIN disk : SampledAt(g, k) # {}}
MaxOf(S) == CHOOSE x \in S : \A y \in S : y <= x

\* the sampled entries of every table file, a later file's entry standing for
\* a key that several files sample
SampledIndex ==
    [k \in {q \in Keys : SampledIn(q) # {}} |->
        [path |-> MaxOf(SampledIn(k)), offset |-> MaxOf(SampledAt(MaxOf(SampledIn(k)), k))]]

C9_LogFailureAborts ==
    /\ \A listFails \in BOOLEAN : \A bad \in {{}, DOMAIN disk} :
          LET c == create(rate, wal, disk, TRUE, listFails, bad)
          IN  /\ c.ret = Err("WAL_INIT_FAILED")
              /\ ~c.listed /\ c.touched = {} /\ c.index = SparseIndexNew
    /\ (last.op = "create" /\ last.ret.err = "WAL_INIT_FAILED") =>
          ~live /\ ~last.listed /\ last.touched = {} /\ index = SparseIndexNew

\* a create has failed on the log while table files exist
C9_Witness ==
    /\ last.op = "create" /\ last.ret.err = "WAL_INIT_FAILED"
    /\ Cardinality(DOMAIN disk) >= 2 /\ DiskKeys # {}

(* ------------------------------- C10 ------------------------------------ *)
\* C10: when the scan of any one table file fails, create returns the
\* index-initialization error and no orchestrator; an orchestrator that
\* create returns has scanned every table file.
C10_ScanFailureAborts ==
    /\ \A g \in DOMAIN disk :
          LET c == create(rate, wal, disk, FALSE, FALSE, {g})
          IN  c.ret = Err("DB_INDEX_INITIALIZATION_FAILED") /\ c.index = SparseIndexNew
    /\ last.op = "create" =>
          /\ live <=> last.ret.ok
          /\ (~last.ret.ok /\ last.touched # {}) =>
                last.ret = Err("DB_INDEX_INITIALIZATION_FAILED")
          /\ live => last.touched = DOMAIN disk
          /\ ~live => index = SparseIndexNew

\* a create has failed on the second table file, after scanning the first
C10_Witness ==
    /\ ~live /\ last.op = "create"
    /\ last.ret.err = "DB_INDEX_INITIALIZATION_FAILED"
    /\ last.touched = {0, 1} /\ Len(disk[0]) >= 1

Batches1 == Batches(1)

\* C12: when the table writer fails during flush, flush returns the
\* table-creation failure, and the index and the log are exactly as they were
\* before the call.
C12_WriterFailureFrame ==
    /\ [](live => \A values \in Batches1 :
                 LET f == flush(rate, index, wal, disk, values, FALSE, TRUE, FALSE)
                 IN  /\ f.ret = Err("SSTABLE_CREATION_FAILED")
                     /\ f.index = index /\ f.log = wal)
    /\ [][(last'.op = "flush" /\ last'.ret.err = "SSTABLE_CREATION_FAILED") =>
             (index' = index /\ wal' = wal)]_vars

\* a flush has failed in the writer, in a session whose index maps keys of
\* two table files
C12_Witness ==
    /\ live /\ last.op = "flush" /\ last.ret = Err("SSTABLE_CREATION_FAILED")
    /\ \E k \in DOMAIN index : index[k].path = 0
    /\ \E k \in DOMAIN index : index[k].path = 1

(* ------------------------------- C13 ------------------------------------ *)
\* the keys that the sampling procedure indexes in table file g of dsk
SampledKeys(dsk, g) ==
    {dsk[g][i + 1].key : i \in {j \in 0..(Len(dsk[g]) - 1) : j % rate = 0}}

\* after a create over dsk in which nothing fails, every sampled key of table
\* file g is mapped to g and get returns a value for it
Rediscovered(dsk, g) ==
    LET c == create(rate, wal, dsk, FALSE, FALSE, {})
    IN  /\ c.ret.ok
        /\ \A k \in SampledKeys(dsk, g) :
              /\ k \in DOMAIN c.index /\ c.index[k].path = g
              /\ LET found == get(c.index, wal, dsk, k, FALSE, FALSE).ret
                 IN  found.ok /\ found.val # None

\* C13: when flush has written the new table file and registering its
\* entries fails, flush returns the index-update failure, the new file stays
\* on disk (the index as before), and a later successful create over the same
\* directory indexes that file: get finds each of its sampled keys (in that
\* file, or in a file flushed after it).
C13_IndexFailureKeepsFile ==
    /\ [](live => \A values \in Batches1 :
                 LET f == flush(rate, index, wal, disk, values, FALSE, FALSE, TRUE)
                     n == Cardinality(DOMAIN disk)
                 IN  /\ f.ret = Err("DB_INDEX_UPDATE_FAILED")
                     /\ n \in DOMAIN f.disk /\ f.disk[n] = values
                     /\ f.index = index)
    /\ []((last.op = "flush" /\ last.ret.err = "DB_INDEX_UPDATE_FAILED") =>
             (DOMAIN disk # {} /\ Rediscovered(disk, Newest)))
    /\ [][(last'.op = "flush" /\ last'.ret.err = "DB_INDEX_UPDATE_FAILED") =>
             /\ DOMAIN disk' = DOMAIN disk \cup {Cardinality(DOMAIN disk)}
             /\ index' = index]_vars
    /\ []((last.op = "create" /\ last.ret.ok) =>
             \A g \in DOMAIN disk : \A k \in SampledKeys(disk, g) :
                 k \in DOMAIN index /\ index[k].path >= g /\ Found(k))

\* a flush has failed to register a new file whose sampled key get does not
\* find through the index as it is
C13_Witness ==
    /\ live /\ last.op = "flush" /\ last.ret = Err("DB_INDEX_UPDATE_FAILED")
    /\ Newest >= 1 /\ Len(disk[Newest]) >= 1
    /\ \E k \in SampledKeys(disk, Newest) : ~Found(k)
    /\ DOMAIN index # {}

SoundAnswer(key, v) ==
    /\ FloorHas(key)
    /\ LET address == get_nearest_address(index, key)[1]
       IN  \E i \in DOMAIN disk[address.path] :
              /\ i - 1 >= address.offset
              /\ disk[address.path][i] = [key |-> key, value |-> v]

\* C20: whenever get(k) returns a value v, (k, v) is a record of the table
\* file named by the index's floor entry for k, at or after the indexed
\* offset; when the index has no key <= k, get returns absence and opens no
\* file; get leaves the index, the log and the table files unchanged.
C20_GetSoundReadOnly ==
    /\ [](live => \A k \in Keys : \A openFails \in BOOLEAN : \A seekFails \in BOOLEAN :
                 LET g == get(index, wal, disk, k, openFails, seekFails)
                 IN  /\ (g.ret.ok /\ g.ret.val # None) => SoundAnswer(k, g.ret.val[1])
                     /\ ~FloorHas(k) =>
                           g.ret = Ok(None) /\ g.touched = {} /\ g.reads = 0
                     /\ g.index = index /\ g.log = wal /\ g.disk = disk)
    /\ [][last'.op = "get" =>
             /\ index' = index /\ wal' = wal /\ disk' = disk
             /\ last'.touched = {} =>
                   (last'.ret = Ok(None) /\ \E k \in Keys : ~FloorHas(k))
             /\ last'.touched \subseteq {index[k].path : k \in DOMAIN index}]_vars

\* a get has returned a value past the indexed record, while some key has no floor
C20_Witness ==
    /\ live /\ last.op = "get" /\ last.ret.ok /\ last.ret.val # None
    /\ last.reads >= 2
    /\ \E k \in Keys : ~FloorHas(k)

(* ------------------------------- C14 ------------------------------------ *)
\* the batches of at most two records, of one value
Batches2 == UNION {[1..m -> [key : Keys, value : {"a"}]] : m \in 0..2}

HoldersOf(k) == {g \in DOMAIN disk : k \in TableKeys(disk[g])}

SampledInto(idx, g) ==
    [k \in (DOMAIN idx) \cup SampledKeys(disk, g) |->
        IF SampledAt(g, k) # {}
        THEN [path |-> g, offset |-> MaxOf(SampledAt(g, k))]
        ELSE idx[k]]

\* C16: scanning a table file with sampling rate N >= 1 updates the index
\* for exactly the records at positions i with i mod N = 0, so the first
\* record of a non-empty file is always indexed, each mapped to (that file,
\* that record's offset), overwriting an earlier mapping of the same key and
\* changing no other entry.
C16_SamplingProcedure ==
    \A g \in DOMAIN disk : \A idx \in {index, SparseIndexNew, BootIndex} :
        LET p == populate_index_from_path(rate, g, disk, idx, FALSE)
        IN  /\ p.ret = Ok(Unit)
            /\ p.index = SampledInto(idx, g)
            /\ Len(disk[g]) >= 1 =>
                  /\ disk[g][1].key \in DOMAIN p.index
                  /\ p.index[disk[g][1].key].path = g
            /\ \A k \in DOMAIN idx : SampledAt(g, k) = {} => p.index[k] = idx[k]

\* rate N > 1: a flush of more records than N has remapped a key of an older
\* file and left the key of an unsampled record out of the index
C16_Witness ==
    /\ live /\ FlushedOk /\ rate > 1 /\ Newest >= 1 /\ Len(Batch) >= rate
    /\ Batch[1].key \in TableKeys(disk[0]) /\ index[Batch[1].key].path = Newest
    /\ \E i \in DOMAIN Batch : (i - 1) % rate # 0 /\ Batch[i].key \notin DOMAIN index

(* ------------------------------- C18 ------------------------------------ *)
\* the generation ordinal a flush in the current state passes to the writer
NextOrdinal == Len(get_valid_table_paths(disk))

\* C18: table files are append-only: no step changes or removes an existing
\* table file; get and insert leave the set of table files as it is; a
\* successful flush adds exactly one file, named with the number of table
\* files existing at that moment, which no existing file bears.
C18_TablesAppendOnly ==
    /\ [](NextOrdinal \notin DOMAIN disk /\ DOMAIN disk = 0..(NextOrdinal - 1))
    /\ [](live => \A values \in Batches1 : \A writeFails \in BOOLEAN :
                 \A openFails \in BOOLEAN :
                     LET f == flush(rate, index, wal, disk, values, FALSE, writeFails,
                                    openFails)
                     IN  /\ \A g \in DOMAIN disk :
                               g \in DOMAIN f.disk /\ f.disk[g] = disk[g]
                         /\ f.ret.ok => DOMAIN f.disk = DOMAIN disk \cup {NextOrdinal})
    /\ [][/\ \A g \in DOMAIN disk : g \in DOMAIN disk' /\ disk'[g] = disk[g]
          /\ last'.op \in {"get", "insert", "create", "drop"} => disk' = disk
          /\ (last'.op = "flush" /\ last'.ret.ok) =>
                /\ DOMAIN disk' = DOMAIN disk \cup {NextOrdinal}
                /\ Cardinality(DOMAIN disk') = Cardinality(DOMAIN disk) + 1
                /\ last'.touched = {NextOrdinal}]_vars

\* a get has found a key of table file 0 after a second flush added file 1
C18_Witness ==
    /\ live /\ last.op = "get" /\ last.touched = {0} /\ last.ret.val # None
    /\ DOMAIN disk = {0, 1} /\ disk[0] # disk[1]

(* ------------------------------- C19 ------------------------------------ *)
\* C19: no flush, successful or failed, changes the log; the log changes
\* only by a successful insert, which appends its one pair, so the log is the
\* sequence of the successfully inserted pairs in insertion order.
C19_FlushKeepsLog ==
    /\ [](live => \A values \in Batches1 : \A writeFails \in BOOLEAN :
                 \A openFails \in BOOLEAN :
                     flush(rate, index, wal, disk, values, FALSE, writeFails,
                           openFails).log = wal)
    /\ [][/\ last'.op = "flush" => wal' = wal
          /\ (last'.op = "insert" /\ ~last'.ret.ok) => wal' = wal
          /\ wal' # wal =>
                /\ last'.op = "insert" /\ last'.ret.ok
                /\ \E k \in Keys, v \in Values :
                      wal' = Append(wal, [key |-> k, value |-> v])]_vars

\* a flush has ended, in success or in failure, with entries in the log
C19_Witness ==
    /\ live /\ last.op = "flush" /\ Len(wal) >= 1 /\ DOMAIN disk # {}

====
